---- MODULE Spec2Model ----
(***************************************************************************)
(* Model of ng-spring-data-rest.js: the generation pipeline doGenerate      *)
(* (login, collectEntities, collectSchemas, output directories,             *)
(* preProcessSchemas, generateTypeScriptFromSchema with                     *)
(* resolveUrlStringReferences per entity).                                  *)
(*                                                                         *)
(* Strings that the code slices (hrefs, rt values) are sequences of         *)
(* one-character strings; all other strings are TLA+ strings.  A JSON field *)
(* that is absent is the string Undef; an absent object-valued field is a   *)
(* FALSE has-flag next to an empty sequence.  JSON objects are sequences of *)
(* named members, in Object.keys order.                                     *)
(***************************************************************************)
EXTENDS Integers, Sequences, FiniteSets, TLC

VARIABLES pc, exitCode, diag, profile, entities, schemas, outDir, config,
          index, genpc, alps, pre, referencedSchemas, written

vars == <<pc, exitCode, diag, profile, entities, schemas, outDir, config,
          index, genpc, alps, pre, referencedSchemas, written>>

----------------------------------------------------------------------------
(* Bounds of the model *)

\* most links of a profile document
MaxLinks == 2
\* most top-level properties of a schema document
MaxProps == 2

----------------------------------------------------------------------------
(* Values *)

Undef == "undefined"

EXIT_AUTH == 5
EXIT_COLLECT_ENTITIES == 3
EXIT_FATAL == 4

Min(a, b) == IF a < b THEN a ELSE b

\* the hrefs the upstream server hands out for repositories
HrefA == <<"/", "a">>
HrefB == <<"/", "b">>
HrefRoot == <<"/">>
EntityHrefs == {HrefA, HrefB}

\* the schema title the server declares for the resource at an href
TitleAt(href) == IF href = HrefA THEN "A" ELSE IF href = HrefB THEN "B" ELSE "Root"

LinkNames == <<"self", "books", "authors">>
PropNames == <<"p", "q", "r">>

----------------------------------------------------------------------------
(* JavaScript string primitives used by the code *)

\* String.prototype.lastIndexOf(ch): 0-based index of the last ch, or -1
LastIndexOf(s, ch) ==
    LET hits == {i \in 1..Len(s) : s[i] = ch}
    IN  IF hits = {} THEN -1
        ELSE (CHOOSE i \in hits : \A j \in hits : j <= i) - 1

\* String.prototype.substr(0, length): a negative length gives ""
Substr0(s, length) ==
    IF length <= 0 THEN <<>> ELSE SubSeq(s, 1, Min(length, Len(s)))

\* Array.prototype.find(x => x.href === href) as an index: the first position
\* with that href, 0 if none
FindByHref(seq, href) ==
    LET hits == {i \in 1..Len(seq) : seq[i].href = href}
    IN  IF hits = {} THEN 0 ELSE CHOOSE i \in hits : \A j \in hits : i <= j

\* Array.prototype.find(d => d.name === name) as an index
FindByName(seq, name) ==
    LET hits == {i \in 1..Len(seq) : seq[i].name = name}
    IN  IF hits = {} THEN 0 ELSE CHOOSE i \in hits : \A j \in hits : i <= j

----------------------------------------------------------------------------
(* Documents the upstream server can answer with *)

\* a link of the profile document's _links object
Link(name, href) == [name |-> name, href |-> href]

\* the self link, and for each repository name a link to one of the
\* repository hrefs (two names can share the same href)
LinkSet ==
    {Link(LinkNames[1], HrefRoot), Link(LinkNames[2], HrefA)} \cup
    {Link(LinkNames[i], h) : i \in 3..Len(LinkNames), h \in EntityHrefs}

DistinctNames(seq) ==
    \A i, j \in 1..Len(seq) : seq[i].name = seq[j].name => i = j

\* GET profile: a body without _links, or one whose _links hold distinct names
ProfileDocs ==
    {[hasLinks |-> FALSE, links |-> <<>>]} \cup
    {[hasLinks |-> TRUE, links |-> ls] :
        ls \in {s \in UNION {[1..n -> LinkSet] : n \in 0..MaxLinks} : DistinctNames(s)}}

\* a member of a properties (or definitions) object
Prop(name, type, format, title, ref, hasProperties, properties) ==
    [name |-> name, type |-> type, format |-> format, title |-> title,
     ref |-> ref, hasProperties |-> hasProperties, properties |-> properties]

\* {type: "string", format: "uri", title: "t"}
UriProp(name) == Prop(name, "string", "uri", "t", Undef, FALSE, <<>>)
\* {$ref: "#/definitions/d", title: "t"}
RefProp(name) == Prop(name, Undef, Undef, "t", "#/definitions/d", FALSE, <<>>)
\* {type: "object", title: "t", properties: {n: <uri string>, m: <$ref>}}
NestedProp(name) ==
    Prop(name, "object", Undef, "t", Undef, TRUE, <<UriProp("n"), RefProp("m")>>)

\* {type: "string", title: "t"}
PlainProp(name) == Prop(name, "string", Undef, "t", Undef, FALSE, <<>>)
\* {type: "integer", format: "uri", title: "t"}
UriIntegerProp(name) == Prop(name, "integer", "uri", "t", Undef, FALSE, <<>>)

\* the schemas a field can have: a uri string, or one other shape per name
PropShapes(name) ==
    {UriProp(name),
     IF name = PropNames[1] THEN NestedProp(name)
     ELSE IF name = PropNames[2] THEN PlainProp(name)
     ELSE UriIntegerProp(name)}

\* properties objects with the first n property names, in that key order
PropLists ==
    UNION {{s \in [1..n -> UNION {PropShapes(PropNames[i]) : i \in 1..n}] :
                \A i \in 1..n : s[i].name = PropNames[i]} :
           n \in 0..Min(MaxProps, Len(PropNames))}

Definitions == <<NestedProp("d"), RefProp("e")>>

\* GET href, Accept: application/schema+json.  oid is the identity of the
\* response object (the position of the fetch), from the href it came from.
SchemaDocs(href, oid) ==
    {[title |-> TitleAt(href), additionalProperties |-> Undef,
      hasProperties |-> TRUE, properties |-> ps,
      hasDefinitions |-> TRUE, definitions |-> Definitions,
      oid |-> oid, from |-> href] : ps \in PropLists}
    \cup
    {[title |-> TitleAt(href), additionalProperties |-> "true",
      hasProperties |-> FALSE, properties |-> <<>>,
      hasDefinitions |-> FALSE, definitions |-> <<>>,
      oid |-> oid, from |-> href]}

\* rt values of affordance descriptors: fragments of the two repositories, an
\* rt without '#', and one with two '#'
Rts ==
    {HrefA \o <<"#", "x">>, HrefB \o <<"#", "x">>, HrefA,
     HrefA \o <<"#", "x", "#", "y">>}

Descriptor(name, hasRt, rt) == [name |-> name, hasRt |-> hasRt, rt |-> rt]

\* what the document holds for one field name: no descriptor, a descriptor
\* without rt, or a descriptor with an rt
DescriptorChoices ==
    {[present |-> FALSE, hasRt |-> FALSE, rt |-> <<>>],
     [present |-> TRUE, hasRt |-> FALSE, rt |-> <<>>]} \cup
    {[present |-> TRUE, hasRt |-> TRUE, rt |-> rt] : rt \in Rts}

\* descriptor lists: descriptors, with or without rt, for some of the names,
\* in the order of the names
DescriptorLists(names) ==
    {LET Positions == [i \in 1..Len(names) |-> i]
         present(i) == c[i].present
         kept == SelectSeq(Positions, present)
     IN  [i \in 1..Len(kept) |-> Descriptor(names[kept[i]], c[kept[i]].hasRt, c[kept[i]].rt)] :
     c \in [1..Len(names) -> DescriptorChoices]}

\* GET href, Accept: application/alps+json: response.data.alps.descriptors.
\* The server describes fields of the entity, names, and no others; the code
\* looks a descriptor up by the name of a schema property only.
AlpsDocs(href, names) ==
    {<<>>} \cup
    {<<[href |-> h, hasDescriptors |-> FALSE, descriptors |-> <<>>]>> : h \in EntityHrefs} \cup
    {<<[href |-> href, hasDescriptors |-> TRUE, descriptors |-> ds]>> :
        ds \in DescriptorLists(names)}

----------------------------------------------------------------------------
(* Pure functions of the code *)

\* collectEntities without the filter on 'self'
collectEntities_KeepSelf(doc) ==
    [i \in 1..Len(doc.links) |-> [name |-> doc.links[i].name, href |-> doc.links[i].href]]

\* collectEntities, the .then callback past the _links check:
\* Object.keys(_links).filter(k => k !== 'self').map(k => ({name, href}))
collectEntities(doc) ==
    LET notSelf(l) == l.name # "self"
        kept == SelectSeq(doc.links, notSelf)
    IN  [i \in 1..Len(kept) |-> [name |-> kept[i].name, href |-> kept[i].href]]

RECURSIVE removeTrivialTitles_Lazy(_)
\* removeTrivialTitles descending only into properties that have no title
removeTrivialTitles_Lazy(object) ==
    [i \in 1..Len(object) |->
        LET property == object[i]
            descended == IF property.hasProperties /\ property.title = Undef
                         THEN [property EXCEPT
                                 !.properties = removeTrivialTitles_Lazy(property.properties)]
                         ELSE property
        IN  IF descended.ref = Undef
            THEN [descended EXCEPT !.title = Undef]
            ELSE descended]

RECURSIVE removeTrivialTitles(_)
\* delete property.title where property['$ref'] is falsy; recurse into
\* property.properties where present
removeTrivialTitles(object) ==
    [i \in 1..Len(object) |->
        LET property == object[i]
            untitled == IF property.ref = Undef
                        THEN [property EXCEPT !.title = Undef]
                        ELSE property
        IN  IF untitled.hasProperties
            THEN [untitled EXCEPT !.properties = removeTrivialTitles(untitled.properties)]
            ELSE untitled]

\* the body of preProcessSchemas' loop for one schema
preProcessSchema(schema, cfg) ==
    LET additional == IF cfg.noAdditionalProperties
                      THEN [schema EXCEPT !.additionalProperties = "false"]
                      ELSE schema
    IN  IF cfg.noTrivialTypes
        THEN [additional EXCEPT
                !.properties = removeTrivialTitles(additional.properties),
                !.definitions = removeTrivialTitles(additional.definitions)]
        ELSE additional

preProcessSchemas(schs, cfg) ==
    [i \in 1..Len(schs) |-> preProcessSchema(schs[i], cfg)]

\* the filter without the test of the format
IsRelevant_TypeOnly(property) == property.type = "string"

\* Object.keys(schema.properties).filter(k => type === 'string' && format === 'uri'),
\* as the positions of the selected members
IsRelevant(property) == property.type = "string" /\ property.format = "uri"

relevantPropertyNames(properties) ==
    LET Positions == [i \in 1..Len(properties) |-> i]
        relevant(i) == IsRelevant(properties[i])
    IN  SelectSeq(Positions, relevant)

\* Object.keys(schema.properties)
PropertyNames(schema) == [i \in 1..Len(schema.properties) |-> schema.properties[i].name]

\* referencedHref.substr(0, referencedHref.lastIndexOf('#'))
ReferencedHref(rt) == Substr0(rt, LastIndexOf(rt, "#"))

\* entities.find(e => e.href === referencedHref), then entities.indexOf(...):
\* the position of the first entity with that href, 0 for schemas[-1]
ReferencedIndex(ents, referencedHref) == FindByHref(ents, referencedHref)

\* the reference recorded without the test for the entity's own schema
IsOtherSchema_Always(referencedSchema, schema) == TRUE

\* whether the reference is recorded: referencedSchema !== schema
IsOtherSchema(referencedSchema, schema) == referencedSchema.oid # schema.oid

\* the push into a list kept free of duplicates
PushReferenced_Dedup(refs, referencedSchema, schema) ==
    IF referencedSchema.oid # schema.oid
       /\ \A n \in 1..Len(refs) : refs[n] # referencedSchema.oid
    THEN Append(refs, referencedSchema.oid)
    ELSE refs

\* if (referencedSchema !== schema) referencedSchemas.push(referencedSchema);
\* the list holds references, here the identities of the schema objects
PushReferenced(refs, referencedSchema, schema) ==
    IF IsOtherSchema(referencedSchema, schema)
    THEN Append(refs, referencedSchema.oid)
    ELSE refs

\* One call of the forEach callback for the property at position k.
\* st = [properties, referencedSchemas, threw]; a TypeError leaves the
\* property with its type and format already changed.
ChangeProperty(st, k, entityDescriptors, hasDescriptors, schema, ents, schs) ==
    LET property == [st.properties[k] EXCEPT !.type = "object", !.format = Undef]
        d == IF hasDescriptors THEN FindByName(entityDescriptors, property.name) ELSE 0
        halfway == [st EXCEPT !.properties[k] = property, !.threw = TRUE]
    IN  IF d = 0 \/ ~entityDescriptors[d].hasRt
        THEN halfway
        ELSE LET e == ReferencedIndex(ents, ReferencedHref(entityDescriptors[d].rt))
             IN  IF e = 0
                 THEN halfway
                 ELSE [properties |->
                          [st.properties EXCEPT ![k] = [property EXCEPT !.title = schs[e].title]],
                       referencedSchemas |->
                          PushReferenced(st.referencedSchemas, schs[e], schema),
                       threw |-> FALSE]

\* the loop leaving after its first property
ForEachRelevant_FirstOnly(ks, st, entityDescriptors, hasDescriptors, schema, ents, schs) ==
    IF ks = <<>>
    THEN st
    ELSE ChangeProperty(st, Head(ks), entityDescriptors, hasDescriptors, schema, ents, schs)

RECURSIVE ForEachRelevant(_, _, _, _, _, _, _)
\* relevantPropertyNames.forEach(...): stops at the first TypeError
ForEachRelevant(ks, st, entityDescriptors, hasDescriptors, schema, ents, schs) ==
    IF ks = <<>> \/ st.threw
    THEN st
    ELSE ForEachRelevant(Tail(ks),
                         ChangeProperty(st, Head(ks), entityDescriptors, hasDescriptors,
                                        schema, ents, schs),
                         entityDescriptors, hasDescriptors, schema, ents, schs)

\* The .then callback of resolveUrlStringReferences on the response `descriptors`:
\* [properties, referencedSchemas, threw]
resolveUrlStringReferences(entity, schema, ents, schs, descriptors) ==
    LET top == FindByHref(descriptors, entity.href)
        start == [properties |-> schema.properties, referencedSchemas |-> <<>>,
                  threw |-> FALSE]
    IN  IF top = 0 \/ ~schema.hasProperties
        THEN [start EXCEPT !.threw = TRUE]
        ELSE ForEachRelevant(relevantPropertyNames(schema.properties), start,
                             descriptors[top].descriptors, descriptors[top].hasDescriptors,
                             schema, ents, schs)

----------------------------------------------------------------------------
(* The state machine *)

Configs == [noAdditionalProperties : BOOLEAN, noTrivialTypes : BOOLEAN]
AuthMethods == {"NONE", "COOKIE", "OAUTH2"}

NoDiag == [message |-> "", name |-> ""]

\* console.error(message) followed by process.exit(code)
Exit(code, message, name) ==
    /\ pc' = "exited"
    /\ exitCode' = code
    /\ diag' = [message |-> message, name |-> name]

\* ngSpringDataRest(options): the state when doGenerate starts.  config holds
\* options.noAdditionalProperties and options.noTrivialTypes.
Init ==
    /\ pc = "login"
    /\ exitCode = 0
    /\ diag = NoDiag
    /\ profile = <<>>
    /\ entities = <<>>
    /\ schemas = <<>>
    /\ outDir = [created |-> FALSE, emptied |-> FALSE]
    /\ config \in Configs
    /\ index = 0
    /\ genpc = "idle"
    /\ alps = <<>>
    /\ pre = <<>>
    /\ referencedSchemas = <<>>
    /\ written = <<>>

\* doGenerate: options.authMethod === 'NONE', or doLogin resolved
Login ==
    /\ pc = "login"
    /\ \E authMethod \in AuthMethods : TRUE
    /\ pc' = "discover"
    /\ UNCHANGED <<exitCode, diag, profile, entities, schemas, outDir, config,
                   index, genpc, alps, pre, referencedSchemas, written>>

\* doGenerate: doLogin rejected
LoginFailed ==
    /\ pc = "login"
    /\ \E authMethod \in AuthMethods \ {"NONE"} : TRUE
    /\ Exit(EXIT_AUTH, "Authentication failed.", "")
    /\ UNCHANGED <<profile, entities, schemas, outDir, config,
                   index, genpc, alps, pre, referencedSchemas, written>>

\* collectEntities: the profile request resolved with a body that has _links
CollectEntities ==
    /\ pc = "discover"
    /\ \E doc \in ProfileDocs :
        /\ doc.hasLinks
        /\ profile' = <<doc>>
        /\ entities' = collectEntities(doc)
    /\ pc' = "collect"
    /\ UNCHANGED <<exitCode, diag, schemas, outDir, config,
                   index, genpc, alps, pre, referencedSchemas, written>>

\* collectEntities: the body has no _links
CollectEntitiesNoLinks ==
    /\ pc = "discover"
    /\ \E doc \in ProfileDocs :
        /\ ~doc.hasLinks
        /\ profile' = <<doc>>
    /\ Exit(EXIT_FATAL, "Response does not contain _links element. Could not collect entities.", "")
    /\ UNCHANGED <<entities, schemas, outDir, config,
                   index, genpc, alps, pre, referencedSchemas, written>>

\* collectEntities: the profile request rejected
CollectEntitiesFailed ==
    /\ pc = "discover"
    /\ Exit(EXIT_COLLECT_ENTITIES, "Collecting entities failed.", "")
    /\ UNCHANGED <<profile, entities, schemas, outDir, config,
                   index, genpc, alps, pre, referencedSchemas, written>>

\* collectSchemas putting each response at the front of the list
CollectSchema_Unshift ==
    /\ pc = "collect"
    /\ Len(schemas) < Len(entities)
    /\ \E doc \in SchemaDocs(entities[Len(schemas) + 1].href, Len(schemas) + 1) :
        schemas' = <<doc>> \o schemas
    /\ profile' = <<>>
    /\ UNCHANGED <<pc, exitCode, diag, entities, outDir, config,
                   index, genpc, alps, pre, referencedSchemas, written>>

\* collectSchemas: the schema request of the next entity resolved
CollectSchema ==
    /\ pc = "collect"
    /\ Len(schemas) < Len(entities)
    /\ \E doc \in SchemaDocs(entities[Len(schemas) + 1].href, Len(schemas) + 1) :
        schemas' = Append(schemas, doc)
    /\ profile' = <<>>
    /\ UNCHANGED <<pc, exitCode, diag, entities, outDir, config,
                   index, genpc, alps, pre, referencedSchemas, written>>

\* collectSchemas: the schema request of the next entity rejected
CollectSchemaFailed ==
    /\ pc = "collect"
    /\ Len(schemas) < Len(entities)
    /\ Exit(EXIT_FATAL, "Could not collect schema for", entities[Len(schemas) + 1].name)
    /\ profile' = <<>>
    /\ UNCHANGED <<entities, schemas, outDir, config,
                   index, genpc, alps, pre, referencedSchemas, written>>

\* doGenerate creating and emptying the directories before collectSchemas
CreateOutputDir_BeforeCollect ==
    /\ pc = "collect"
    /\ ~outDir.created \/ Len(schemas) = Len(entities)
    /\ outDir' = [created |-> TRUE, emptied |-> TRUE]
    /\ pc' = IF outDir.created THEN "preprocess" ELSE "collect"
    /\ profile' = <<>>
    /\ UNCHANGED <<exitCode, diag, entities, schemas, config,
                   index, genpc, alps, pre, referencedSchemas, written>>

\* doGenerate after collectSchemas returned: mkdirSync and emptyDirSync of the
\* model and service directories
CreateOutputDir ==
    /\ pc = "collect"
    /\ Len(schemas) = Len(entities)
    /\ outDir' = [created |-> TRUE, emptied |-> TRUE]
    /\ pc' = "preprocess"
    /\ profile' = <<>>
    /\ UNCHANGED <<exitCode, diag, entities, schemas, config,
                   index, genpc, alps, pre, referencedSchemas, written>>

\* doGenerate: preProcessSchemas(jsonSchemas, options), then the call of
\* generateTypeScriptFromSchema up to its loop
PreProcess ==
    /\ pc = "preprocess"
    /\ schemas' = preProcessSchemas(schemas, config)
    /\ pc' = "generate"
    /\ index' = 1
    /\ genpc' = "interface"
    /\ UNCHANGED <<exitCode, diag, profile, entities, outDir, config,
                   alps, pre, referencedSchemas, written>>

\* the loop going on to the class file without resolveUrlStringReferences
CompileInterface_SkipResolve ==
    /\ pc = "generate"
    /\ genpc = "interface"
    /\ index <= Len(schemas)
    /\ genpc' = "class"
    /\ UNCHANGED <<pc, exitCode, diag, profile, entities, schemas, outDir, config,
                   index, alps, pre, referencedSchemas, written>>

\* generateTypeScriptFromSchema: the first jsonTs.compile of the entity at
\* index and the interface name, up to the call of resolveUrlStringReferences
CompileInterface ==
    /\ pc = "generate"
    /\ genpc = "interface"
    /\ index <= Len(schemas)
    /\ genpc' = "resolve"
    /\ UNCHANGED <<pc, exitCode, diag, profile, entities, schemas, outDir, config,
                   index, alps, pre, referencedSchemas, written>>

\* resolveUrlStringReferences: the alps request resolved and the .then
\* callback ran to its end
ResolveReferences ==
    /\ pc = "generate"
    /\ genpc = "resolve"
    /\ \E descriptors \in AlpsDocs(entities[index].href, PropertyNames(schemas[index])) :
        LET r == resolveUrlStringReferences(entities[index], schemas[index],
                                            entities, schemas, descriptors)
        IN  /\ ~r.threw
            /\ alps' = <<descriptors>>
            /\ schemas' = [schemas EXCEPT ![index].properties = r.properties]
            /\ referencedSchemas' = r.referencedSchemas
    /\ pre' = <<schemas[index]>>
    /\ genpc' = "class"
    /\ UNCHANGED <<pc, exitCode, diag, profile, entities, outDir, config,
                   index, written>>

\* the .catch printing the diagnostic without process.exit
ResolveReferencesThrew_NoExit ==
    /\ pc = "generate"
    /\ genpc = "resolve"
    /\ \E descriptors \in AlpsDocs(entities[index].href, PropertyNames(schemas[index])) :
        LET r == resolveUrlStringReferences(entities[index], schemas[index],
                                            entities, schemas, descriptors)
        IN  /\ r.threw
            /\ alps' = <<descriptors>>
            /\ schemas' = [schemas EXCEPT ![index].properties = r.properties]
    /\ pre' = <<schemas[index]>>
    /\ diag' = [message |-> "Could not collect schema references for",
                name |-> entities[index].name]
    /\ referencedSchemas' = <<>>
    /\ genpc' = "class"
    /\ UNCHANGED <<pc, exitCode, profile, entities, outDir, config, index, written>>

\* resolveUrlStringReferences: the .then callback threw a TypeError, which
\* the .catch answers with the diagnostic and process.exit(4)
ResolveReferencesThrew ==
    /\ pc = "generate"
    /\ genpc = "resolve"
    /\ \E descriptors \in AlpsDocs(entities[index].href, PropertyNames(schemas[index])) :
        LET r == resolveUrlStringReferences(entities[index], schemas[index],
                                            entities, schemas, descriptors)
        IN  /\ r.threw
            /\ alps' = <<descriptors>>
            /\ schemas' = [schemas EXCEPT ![index].properties = r.properties]
    /\ pre' = <<schemas[index]>>
    /\ Exit(EXIT_FATAL, "Could not collect schema references for", entities[index].name)
    /\ UNCHANGED <<profile, entities, outDir, config,
                   index, genpc, referencedSchemas, written>>

\* resolveUrlStringReferences: the alps request rejected
ResolveReferencesFailed ==
    /\ pc = "generate"
    /\ genpc = "resolve"
    /\ Exit(EXIT_FATAL, "Could not collect schema references for", entities[index].name)
    /\ UNCHANGED <<profile, entities, schemas, outDir, config,
                   index, genpc, alps, pre, referencedSchemas, written>>

\* referencedSchemas.map(s => s.title)
ReferencedClasses(refs, schs) ==
    [i \in 1..Len(refs) |-> schs[refs[i]].title]

\* generateTypeScriptFromSchema: the second jsonTs.compile, the class file and
\* the service file of the entity at index, then index++
EmitEntity ==
    /\ pc = "generate"
    /\ genpc = "class"
    /\ written' = written \o
          <<[kind |-> "class", entity |-> index, className |-> schemas[index].title,
             referencedClasses |-> ReferencedClasses(referencedSchemas, schemas)],
            [kind |-> "service", entity |-> index, className |-> schemas[index].title,
             referencedClasses |-> <<>>]>>
    /\ index' = index + 1
    /\ genpc' = "interface"
    /\ alps' = <<>>
    /\ pre' = <<>>
    /\ referencedSchemas' = <<>>
    /\ UNCHANGED <<pc, exitCode, diag, profile, entities, schemas, outDir, config>>

\* generateTypeScriptFromSchema past the loop: the models and services lists
EmitLists ==
    /\ pc = "generate"
    /\ genpc = "interface"
    /\ index > Len(schemas)
    /\ written' = written \o
          <<[kind |-> "models", entity |-> 0, className |-> "", referencedClasses |-> <<>>],
            [kind |-> "services", entity |-> 0, className |-> "", referencedClasses |-> <<>>]>>
    /\ pc' = "done"
    /\ genpc' = "idle"
    /\ UNCHANGED <<exitCode, diag, profile, entities, schemas, outDir, config,
                   index, alps, pre, referencedSchemas>>

Next ==
    \/ Login
    \/ LoginFailed
    \/ CollectEntities
    \/ CollectEntitiesNoLinks
    \/ CollectEntitiesFailed
    \/ CollectSchema
    \/ CollectSchemaFailed
    \/ CreateOutputDir
    \/ PreProcess
    \/ CompileInterface
    \/ ResolveReferences
    \/ ResolveReferencesThrew
    \/ ResolveReferencesFailed
    \/ EmitEntity
    \/ EmitLists

Spec == Init /\ [][Next]_vars

----------------------------------------------------------------------------
(* Vocabulary of the properties, stated without the operators of the model *)

\* the state right after collectEntities returned its list
Discovered == pc = "collect" /\ profile # <<>>

\* the positions of the non-self links of the fetched profile document
NonSelfLinks ==
    {i \in 1..Len(profile[1].links) : profile[1].links[i].name # "self"}

\* collectSchemas has returned
Collected == outDir.created

\* the state right after preProcessSchemas ran
Normalized == pc = "generate" /\ index = 1 /\ genpc = "interface"

\* resolveUrlStringReferences of the entity at index returned its list
Resolved == pc = "generate" /\ genpc = "class"

\* the .then callback of resolveUrlStringReferences has run for the entity at
\* index, to its end or to a TypeError
CallbackRan == pre # <<>>

SchemaFetchFailed == pc = "exited" /\ diag.message = "Could not collect schema for"

----------------------------------------------------------------------------
(* C6: Entity Discovery *)

\* C6: a profile document with a links container of n non-self links gives
\* exactly n entity descriptors {name, href}, one per non-self link, in the
\* order of the links (n = 0 included, without failing); a document without a
\* links container ends the run with a non-zero exit and no list.
C6_Discovery ==
    /\ Discovered =>
        /\ profile[1].hasLinks
        /\ exitCode = 0
        /\ Len(entities) = Cardinality(NonSelfLinks)
        /\ \A i \in NonSelfLinks :
              LET j == Cardinality({k \in NonSelfLinks : k < i}) + 1
              IN  entities[j] = [name |-> profile[1].links[i].name,
                                 href |-> profile[1].links[i].href]
    /\ (profile # <<>> /\ ~profile[1].hasLinks) =>
        /\ pc = "exited"
        /\ exitCode # 0
        /\ entities = <<>>

\* a self link is dropped and the entity after it is kept
C6_Witness ==
    /\ Discovered
    /\ Len(profile[1].links) = 2
    /\ profile[1].links[1].name = "self"
    /\ Len(entities) = 1

----------------------------------------------------------------------------
(* C2: fail-fast schema collection *)

\* C2: when the schema fetch of an entity fails, the run has ended with a
\* non-zero exit and a diagnostic naming that entity, the output directories
\* are neither created nor emptied, no file is written, and no later step
\* (fetch, normalization, resolution, emission) has run.
C2_FailFast ==
    SchemaFetchFailed =>
        /\ exitCode # 0
        /\ Len(schemas) < Len(entities)
        /\ diag.name = entities[Len(schemas) + 1].name
        /\ ~outDir.created
        /\ ~outDir.emptied
        /\ written = <<>>
        /\ index = 0
        /\ genpc = "idle"
        /\ ~ENABLED Next

\* the fetch of the second entity fails after the first one succeeded
C2_Witness ==
    /\ SchemaFetchFailed
    /\ Len(schemas) = 1
    /\ Len(entities) = 2

----------------------------------------------------------------------------
(* C4: positional alignment *)

Aligned ==
    /\ Len(schemas) = Len(entities)
    /\ \A i \in 1..Len(schemas) :
          schemas[i].oid = i /\ schemas[i].from = entities[i].href

ListsKept ==
    /\ entities' = entities
    /\ Len(schemas') = Len(schemas)
    /\ \A i \in 1..Len(schemas) :
          schemas'[i].oid = schemas[i].oid /\ schemas'[i].from = schemas[i].from

\* C4: in every state after collectSchemas returned, the schema list and the
\* entity list have the same length and schemas[i] is the document fetched
\* from entities[i].href by the i-th fetch; no later step inserts into,
\* removes from or reorders either list.
C4_Aligned ==
    /\ [](Collected => Aligned)
    /\ [][Collected => ListsKept]_vars

\* two entities collected, normalized, and the first one resolved
C4_Witness ==
    /\ Collected
    /\ Len(entities) = 2
    /\ entities[1].href # entities[2].href
    /\ index = 2

----------------------------------------------------------------------------
(* C7: the normalizer is idempotent *)

\* C7: applying preProcessSchemas again, with the same configuration, to the
\* schema list it produced leaves the list as it is.
C7_Idempotent ==
    Normalized => preProcessSchemas(schemas, config) = schemas

\* a normalized schema whose nested property lost its title and whose $ref
\* property kept it
C7_Witness ==
    /\ Normalized
    /\ config.noTrivialTypes
    /\ config.noAdditionalProperties
    /\ Len(schemas) = 2
    /\ \E k \in 1..Len(schemas[1].properties) :
          LET property == schemas[1].properties[k]
          IN  /\ property.hasProperties
              /\ property.title = Undef
              /\ property.properties[1].title = Undef
              /\ property.properties[2].title = "t"

----------------------------------------------------------------------------
(* Vocabulary of the resolver's properties: the entity X at index, its schema
   before the callback (pre) and after (schemas[index]), and the fetched
   affordance descriptors (alps) *)

Before == pre[1]
After == schemas[index]

\* the top-level properties of X's schema with type "string" and format "uri"
\* before resolution
Selected ==
    {k \in 1..Len(Before.properties) :
        Before.properties[k].type = "string" /\ Before.properties[k].format = "uri"}

\* the affordance descriptors with the given name among the descriptors of
\* the entry for X's href
DescriptorsNamed(name) ==
    {d \in UNION {{t.descriptors[i] : i \in 1..Len(t.descriptors)} :
                    t \in {alps[1][j] : j \in {j \in 1..Len(alps[1]) :
                              alps[1][j].href = entities[index].href}}} :
        d.name = name}

HashPositions(rt) == {n \in 1..Len(rt) : rt[n] = "#"}

\* the parts of rt before its last '#' (none when rt has no '#')
BeforeLastHash(rt) ==
    {SubSeq(rt, 1, n - 1) : n \in {n \in HashPositions(rt) :
                                      \A m \in HashPositions(rt) : m <= n}}

\* the known entities whose href is the part before the last '#' of the rt of
\* the descriptor named like property k
TargetsOf(k) ==
    {e \in 1..Len(entities) :
        \E d \in DescriptorsNamed(Before.properties[k].name) :
            d.hasRt /\ entities[e].href \in BeforeLastHash(d.rt)}

\* the first of them in discovery order (0 when there is none)
FirstTarget(k) ==
    IF TargetsOf(k) = {} THEN 0
    ELSE CHOOSE e \in TargetsOf(k) : \A f \in TargetsOf(k) : e <= f

InReferenceList(oid) ==
    \E n \in 1..Len(referencedSchemas) : referencedSchemas[n] = oid

----------------------------------------------------------------------------
(* C1: the resolver's postcondition *)

\* C1: after resolveUrlStringReferences(X) returned, every top-level property
\* p that had type "string" and format "uri", and whose descriptor's rt up to
\* its last '#' is the href of a known entity E, has type "object", no
\* format, and the title of E's schema; and the schema of E (the first entity
\* with that href, in discovery order) is in the returned list iff it is not
\* X's own schema.
C1_Postcondition ==
    Resolved =>
        \A k \in Selected : \A e \in TargetsOf(k) :
            /\ After.properties[k].type = "object"
            /\ After.properties[k].format = Undef
            /\ After.properties[k].title = schemas[e].title
            /\ e = FirstTarget(k) =>
                  (InReferenceList(schemas[e].oid) <=> schemas[e].oid # After.oid)

\* X has one property referring to X itself and one referring to another entity
C1_Witness ==
    /\ Resolved
    /\ Len(entities) = 2
    /\ Selected = {1, 2}
    /\ \E k \in Selected : FirstTarget(k) = index
    /\ \E k \in Selected : FirstTarget(k) \notin {0, index}

----------------------------------------------------------------------------
(* C10: the reference list is not deduplicated *)

RecordedProperties == {k \in Selected : FirstTarget(k) # index}

\* C10: the list returned by resolveUrlStringReferences holds one entry per
\* selected property whose referenced schema is not X's own, in the order of
\* the properties; m properties referring to the same other entity give m
\* entries for it.
C10_NoDeduplication ==
    Resolved =>
        /\ \A k \in Selected : TargetsOf(k) # {}
        /\ Len(referencedSchemas) = Cardinality(RecordedProperties)
        /\ \A k \in RecordedProperties :
              referencedSchemas[Cardinality({j \in RecordedProperties : j < k}) + 1]
                 = schemas[FirstTarget(k)].oid

\* two properties of X refer to the same other entity, which is listed twice
C10_Witness ==
    /\ Resolved
    /\ Selected = {1, 2}
    /\ FirstTarget(1) = FirstTarget(2)
    /\ FirstTarget(1) # index
    /\ Len(referencedSchemas) = 2
    /\ referencedSchemas[1] = referencedSchemas[2]

----------------------------------------------------------------------------
(* C8: the resolver's frame *)

\* C8: resolveUrlStringReferences(X) leaves every top-level property of X's
\* schema that is not a type "string"/format "uri" property (so every
\* property without format "uri") as it was, keeps name, $ref and nested
\* properties of the selected ones, and changes nothing of X's schema outside
\* its properties; also when it stops at a TypeError.
C8_Frame ==
    CallbackRan =>
        /\ [After EXCEPT !.properties = Before.properties] = Before
        /\ Len(After.properties) = Len(Before.properties)
        /\ \A k \in 1..Len(Before.properties) :
              /\ k \notin Selected => After.properties[k] = Before.properties[k]
              /\ After.properties[k].name = Before.properties[k].name
              /\ After.properties[k].ref = Before.properties[k].ref
              /\ After.properties[k].hasProperties = Before.properties[k].hasProperties
              /\ After.properties[k].properties = Before.properties[k].properties

\* X has a resolved uri property next to a plain string property
C8_Witness ==
    /\ Resolved
    /\ Selected = {1}
    /\ Len(Before.properties) = 2
    /\ Before.properties[2].type = "string"
    /\ After.properties[1].type = "object"

----------------------------------------------------------------------------
(* C5: no uri string is left after resolution *)

IsUriString(property) == property.type = "string" /\ property.format = "uri"

RECURSIVE UriStringsInTree(_)
\* whether a property of the tree under `properties` is a uri string
UriStringsInTree(properties) ==
    \E k \in 1..Len(properties) :
        \/ IsUriString(properties[k])
        \/ properties[k].hasProperties /\ UriStringsInTree(properties[k].properties)

\* C5 as stated: after resolveUrlStringReferences(X) returned, no property of
\* the property tree of X's schema has type "string" with format "uri".
C5_WholeTree ==
    Resolved => ~UriStringsInTree(After.properties)

\* C5, amended: after resolveUrlStringReferences(X) returned, no top-level
\* property of X's schema has type "string" with format "uri"; each one that
\* had has type "object" and the title of the referenced entity's schema.
\* Nested properties are left as they were.
C5_TopLevel ==
    Resolved =>
        /\ \A k \in 1..Len(After.properties) : ~IsUriString(After.properties[k])
        /\ \A k \in Selected :
              /\ After.properties[k].type = "object"
              /\ FirstTarget(k) # 0
              /\ After.properties[k].title = schemas[FirstTarget(k)].title

\* X's uri string was rewritten while the one nested in another property stays
C5_Witness ==
    /\ Resolved
    /\ Selected # {}
    /\ \A k \in 1..Len(After.properties) : ~IsUriString(After.properties[k])
    /\ UriStringsInTree(After.properties)

----------------------------------------------------------------------------
(* C9: unmatched lookups are fatal *)

KnownHrefs == {entities[e].href : e \in 1..Len(entities)}

\* the href the code derives from an rt: the part before the last '#', the
\* empty string when there is no '#'
DerivedBase(rt) == IF HashPositions(rt) = {} THEN {<<>>} ELSE BeforeLastHash(rt)

\* property k has no descriptor of its name, or the base href of its
\* descriptor's rt is the href of no known entity
Unmatched(k) ==
    \/ DescriptorsNamed(Before.properties[k].name) = {}
    \/ \E d \in DescriptorsNamed(Before.properties[k].name) :
          d.hasRt /\ DerivedBase(d.rt) \cap KnownHrefs = {}

\* C9: when a selected property of X has no descriptor of its name, or its
\* rt's base href is the href of no known entity, the run has ended with a
\* non-zero exit and the diagnostic naming X, only entities before X have
\* artifacts, and nothing runs afterwards.
C9_UnmatchedFatal ==
    (CallbackRan /\ \E k \in Selected : Unmatched(k)) =>
        /\ pc = "exited"
        /\ exitCode # 0
        /\ diag = [message |-> "Could not collect schema references for",
                   name |-> entities[index].name]
        /\ \A w \in 1..Len(written) :
              /\ written[w].kind \in {"class", "service"}
              /\ written[w].entity \in 1..(index - 1)
        /\ ~ENABLED Next

\* the second entity stops half-way: its first property is resolved, its second
\* has type "object" and its old title, the first entity's files are written
C9_Witness ==
    /\ pc = "exited"
    /\ CallbackRan
    /\ index = 2
    /\ Len(written) = 2
    /\ Selected = {1, 2}
    /\ ~Unmatched(1)
    /\ Unmatched(2)
    /\ After.properties[1].title \in {"A", "B"}
    /\ After.properties[2].type = "object"
    /\ After.properties[2].title \notin {"A", "B"}

----------------------------------------------------------------------------
(* C3: the order of the stages *)

\* reference resolution of the entity at position i has completed
ResolutionDone(i) == i < index \/ (i = index /\ Resolved)

ArtifactsOf(i) ==
    {w \in 1..Len(written) : written[w].kind \in {"class", "service"} /\ written[w].entity = i}

\* the normalizer has been applied to every schema
NormalizedAll ==
    \A i \in 1..Len(schemas) :
        /\ config.noAdditionalProperties => schemas[i].additionalProperties = "false"
        /\ config.noTrivialTypes =>
              \A d \in 1..Len(schemas[i].definitions) :
                  schemas[i].definitions[d].ref = Undef =>
                      schemas[i].definitions[d].title = Undef

\* C3 as stated: no class or service file of any entity is written before
\* reference resolution has completed for every entity.
C3_StagesStrictlySequential ==
    (\E i \in 1..Len(entities) : ArtifactsOf(i) # {}) =>
        \A i \in 1..Len(entities) : ResolutionDone(i)

\* C3, amended: discovery, collection, the output directories and
\* normalization each complete for all entities before the next of them
\* starts, and all before the loop over the entities; the loop takes the
\* entities in discovery order and, for each, completes its reference
\* resolution and only then writes its class and service file, so the files
\* of an entity can be written before a later entity is resolved; the models
\* and services lists are written after the last entity.
C3_StagesPerEntity ==
    /\ outDir.created => Len(schemas) = Len(entities)
    /\ index >= 1 => outDir.created /\ outDir.emptied
    /\ index >= 1 => NormalizedAll
    /\ \A i \in 1..Len(entities) :
          /\ i < index <=> ArtifactsOf(i) = {2 * i - 1, 2 * i}
          /\ i >= index <=> ArtifactsOf(i) = {}
          /\ ArtifactsOf(i) # {} =>
                /\ schemas[i].hasProperties
                /\ \A k \in 1..Len(schemas[i].properties) :
                      ~IsUriString(schemas[i].properties[k])
    /\ \A w \in 1..Len(written) :
          written[w].kind \in {"models", "services"} =>
             /\ pc = "done"
             /\ w > 2 * Len(entities)
             /\ index = Len(entities) + 1

\* the first entity's files are written, the second one is not yet resolved
C3_Witness ==
    /\ pc = "generate"
    /\ Len(entities) = 2
    /\ ArtifactsOf(1) = {1, 2}
    /\ index = 2
    /\ genpc = "resolve"
    /\ \E k \in 1..Len(schemas[2].properties) : IsUriString(schemas[2].properties[k])

====
